---- MODULE Spec2Model ----
(***************************************************************************)
(* Architecture Review Orchestrator (main.py) and the agents it drives.    *)
(*                                                                         *)
(* Text is modelled as a sequence of tokens, so that concatenation is \o   *)
(* and "contains" is membership of a token.  JSON values are tagged        *)
(* records [t, v]; a missing dictionary key is the value Absent.           *)
(*                                                                         *)
(* main() is modelled statement by statement.  The calls main awaits are   *)
(* the suspension points: each either returns a value or raises, and an    *)
(* exception that main does not catch ends the run (pc = "failed").        *)
(* validate_document_structure is modelled from its body; the planner, the *)
(* document processor, the security reviewer and the consolidator's LLM    *)
(* call are seen from main at their await: a returned string or a raise.   *)
(***************************************************************************)
EXTENDS Naturals, Sequences, FiniteSets, TLC

VARIABLES
    pc,                        \* position of main()
    env,                       \* os.environ: variable name -> unset / empty / set
    fs,                        \* file system: is test_data/arb.pdf there
    calls,                     \* number of invocations of each collaborator
    history,                   \* stages entered, in order
    printed,                   \* what main() has written to standard output
    plan,                      \* planner.create_plan(goal)
    comprehensive_summary,     \* main.py:139
    rule_file,                 \* rules/structural_rules.yaml as found on disk
    structural_rules,          \* text returned by LoadRules
    report_str,                \* the evaluator's raw response (validator local)
    structure_validation_data, \* main.py:147
    structural_report_text,    \* main.py:148
    has_critical_errors,       \* main.py:149
    validator_input,           \* summary the validator was called with
    security_input,            \* summary the security reviewer was called with
    launched,                  \* review tasks handed to asyncio.gather, in order
    results,                   \* task name -> result of the task
    unresolved,                \* launched tasks whose LLM call never answers
    consolidations,            \* completed consolidate_all_reports calls, in order
    consolidator_args,         \* arguments of consolidate_all_reports
    report_details,            \* text the consolidator sends to the LLM
    final_report,              \* main.py:157 / main.py:181
    failure,                   \* which await raised, when pc = "failed"
    evaluator_messages,        \* user message the validator sends to its LLM
    validations,               \* verdicts returned by validate_document_structure
    document_text,             \* process_document: result of ExtractDocumentText
    summarizer_messages        \* process_document: messages given to the summarizer

vars == <<pc, env, fs, calls, history, printed, plan, comprehensive_summary, rule_file,
          structural_rules, report_str, structure_validation_data,
          structural_report_text, has_critical_errors, validator_input,
          security_input, launched, results, unresolved, consolidations,
          consolidator_args, report_details, final_report, failure,
          evaluator_messages, validations, document_text, summarizer_messages>>

----------------------------------------------------------------------------
(* Bounds *)

MaxRules == 1     \* rules in the rule file
MaxEvals == 1     \* entries of rule_evaluations in the evaluator's output

----------------------------------------------------------------------------
(* Text and JSON values *)

NoText == <<"<unset>">>

Absent == [t |-> "absent", v |-> <<>>]
JNull  == [t |-> "null",   v |-> <<>>]
JTrue  == [t |-> "bool",   v |-> <<"True">>]
JFalse == [t |-> "bool",   v |-> <<"False">>]
JStr(s) == [t |-> "str", v |-> s]

\* Python truth value of a JSON value (None, False, "" are falsy).
Truthy(j) ==
    CASE j.t = "absent" -> FALSE
      [] j.t = "null"   -> FALSE
      [] j.t = "bool"   -> j = JTrue
      [] j.t = "str"    -> j.v # <<>>
      [] OTHER          -> TRUE

\* dict.get(key, default): the default only replaces a missing key.
Get(j, default) == IF j = Absent THEN default ELSE j

\* str(x) as an f-string renders it.
PyStr(j) ==
    CASE j.t = "absent" -> <<"None">>
      [] j.t = "null"   -> <<"None">>
      [] OTHER          -> j.v

\* s[:n]
Take(s, n) == IF Len(s) <= n THEN s ELSE SubSeq(s, 1, n)

Contains(s, tok) == \E i \in 1..Len(s) : s[i] = tok

IsPrefix(s, t) == Len(s) <= Len(t) /\ SubSeq(t, 1, Len(s)) = s

----------------------------------------------------------------------------
(* plugins: LoadRules *)

RuleNames == <<"R1", "R2", "R3">>

\* A rule as yaml.safe_load returns it: {id, description, critical}.
Rule(i, crit) == [id |-> RuleNames[i], critical |-> crit]

RuleLists ==
    UNION { { [i \in 1..n |-> Rule(i, c[i])] : c \in [1..n -> BOOLEAN] } : n \in 0..MaxRules }

\* What may be on disk under rules/structural_rules.yaml.
RuleFiles ==
    { [exists |-> TRUE, readable |-> TRUE, rules |-> r] : r \in RuleLists }
    \cup { [exists |-> FALSE, readable |-> FALSE, rules |-> <<>>],
           [exists |-> TRUE,  readable |-> FALSE, rules |-> <<>>] }

NoRuleFile == [exists |-> FALSE, readable |-> FALSE, rules |-> <<>>]

RuleLine(rule) ==
    <<"- ", rule.id, ": ", "<description>", " (Critical: ",
      IF rule.critical THEN "True" ELSE "False", ")">>

RECURSIVE JoinLines(_)
JoinLines(rules) ==
    IF rules = <<>> THEN <<>>
    ELSE IF Len(rules) = 1 THEN RuleLine(rules[1])
    ELSE RuleLine(rules[1]) \o <<"\n">> \o JoinLines(Tail(rules))

\* A loader that answers a failed load with an empty rules text.
load_rules_EmptyOnError(file) ==
    IF file.exists /\ file.readable THEN JoinLines(file.rules) ELSE <<>>

\* LocalRuleLoaderPlugin.load_rules: never raises, errors come back as text.
load_rules(file) ==
    IF ~file.exists
    THEN <<"Error: Rule file '", "structural_rules.yaml", "' not found at ", "<path>">>
    ELSE IF ~file.readable
    THEN <<"Error loading rules from ", "structural_rules.yaml", ": ", "<exception>">>
    ELSE JoinLines(file.rules)

----------------------------------------------------------------------------
(* StructureValidatorAgent.validate_document_structure *)

Statuses == {"Met", "Violated", "NotApplicable"}

\* One entry of rule_evaluations; isObj = FALSE is an entry that is no object.
EvalItem(id, status, explanation) ==
    [isObj |-> TRUE, id |-> id, status |-> status, explanation |-> explanation]

NonObjectItem == [isObj |-> FALSE, id |-> Absent, status |-> Absent, explanation |-> Absent]

EvalItems ==
    { EvalItem(JStr(<<RuleNames[i]>>), st, ex) :
        i \in 1..MaxRules,
        st \in {JStr(<<s>>) : s \in Statuses} \cup {Absent},
        ex \in {Absent, JStr(<<"why">>)} }
    \cup {NonObjectItem}

\* The rule_evaluations key: missing, null, or a list.
EvalsAbsent == [t |-> "absent", items |-> <<>>]
EvalsNull   == [t |-> "null",   items |-> <<>>]
EvalsList(items) == [t |-> "list", items |-> items]

EvalsFields ==
    {EvalsAbsent, EvalsNull}
    \cup UNION { { EvalsList(l) : l \in [1..n -> EvalItems] } : n \in 0..MaxEvals }

Verdict(evals, hce, reason, text) ==
    [rule_evaluations |-> evals, has_critical_errors |-> hce,
     critical_error_reason |-> reason, report_text |-> text]

NoVerdict == Verdict(EvalsAbsent, Absent, Absent, Absent)

FlagValues   == {Absent, JTrue, JFalse, JNull, JStr(<<"false">>)}
ReasonValues == {Absent, JStr(<<>>), JStr(<<"missing section">>)}

\* Documents the evaluator may answer with; a report_text of its own comes
\* with the documents that have an empty evaluation list.
ObjectDocs ==
    { Verdict(ev, f, r, Absent) :
        ev \in EvalsFields, f \in FlagValues, r \in ReasonValues }
    \cup { Verdict(EvalsList(<<>>), f, r, JStr(<<"hand-written report">>)) :
              f \in FlagValues, r \in ReasonValues }

\* raw_response.content: kind of text, and whether it sits in a ```json fence.
\*   garbage : no JSON at all;  scalar / array : JSON, but no object.
Raw(fence, kind, doc) == [fence |-> fence, kind |-> kind, doc |-> doc]

RawResponses ==
    { Raw(f, "object", d) : f \in {"none", "both"}, d \in ObjectDocs }
    \cup { Raw("none", k, NoVerdict) : k \in {"garbage", "scalar", "array"} }
    \cup { Raw("open", "object", Verdict(EvalsList(<<>>), JFalse, Absent, Absent)) }

NoRaw == Raw("none", "unset", NoVerdict)

\* Lines 72-76: strip, then drop the fence only when both ends are there.
StripFence(raw) == IF raw.fence = "both" THEN [raw EXCEPT !.fence = "none"] ELSE raw

\* Lines 79: json.loads raises JSONDecodeError unless the text is JSON.
JsonDecodes(str) == str.fence = "none" /\ str.kind \in {"scalar", "array", "object"}

\* Lines 83-93 raise (TypeError / AttributeError) when the parsed value is no
\* dict, when rule_evaluations cannot be iterated, or when an entry has no .get.
RenderRaises(str) ==
    \/ str.kind # "object"
    \/ str.doc.rule_evaluations.t = "null"
    \/ \E i \in 1..Len(str.doc.rule_evaluations.items) :
           ~str.doc.rule_evaluations.items[i].isObj

EvalLine(e) ==
    <<"- Rule ">> \o PyStr(e.id) \o <<": ">> \o PyStr(e.status)
    \o (IF Truthy(e.explanation) THEN <<" - ">> \o PyStr(e.explanation) ELSE <<>>)
    \o <<"\n">>

RECURSIVE EvalLines(_)
EvalLines(items) ==
    IF items = <<>> THEN <<>> ELSE EvalLine(items[1]) \o EvalLines(Tail(items))

\* Lines 83-93: the report text regenerated from the parsed fields.
RenderReportText(doc) ==
    <<"Structural Validation Report:\n">>
    \o EvalLines(doc.rule_evaluations.items)
    \o (IF Truthy(doc.has_critical_errors)
        THEN <<"\nCRITICAL ERRORS DETECTED: ">>
             \o PyStr(Get(doc.critical_error_reason, JStr(<<"Reason not provided.">>)))
             \o <<"\n">>
        ELSE <<"\nNo critical structural errors detected.\n">>)

RawPrefixLen == 200

RawText(str) == <<"<raw:", str.kind, ">">>

\* Lines 97-105: the verdict substituted on a JSONDecodeError.
MalformedVerdict(str) ==
    Verdict(EvalsList(<<>>), JTrue,
            JStr(<<"Validation agent produced ", "malformed", " JSON output: ",
                   "<JSONDecodeError>", ". Raw output: ">>
                 \o Take(RawText(str), RawPrefixLen) \o <<"...">>),
            JStr(<<"Structural Validation Failed: Malformed response from agent. ",
                   "<JSONDecodeError>", ". Raw output: ">>
                 \o Take(RawText(str), RawPrefixLen) \o <<"...">>))

\* Lines 106-113: the verdict substituted on any other exception.
UnexpectedVerdict ==
    Verdict(EvalsList(<<>>), JTrue,
            JStr(<<"Unexpected error during validation: ", "<exception>">>),
            JStr(<<"Structural Validation Failed: Unexpected error. ", "<exception>">>))

\* Lines 72-113: from the evaluator's response to the returned verdict.
validate_document_structure(raw) ==
    LET str == StripFence(raw) IN
    IF ~JsonDecodes(str) THEN MalformedVerdict(str)
    ELSE IF RenderRaises(str) THEN UnexpectedVerdict
    ELSE [str.doc EXCEPT !.report_text = JStr(RenderReportText(str.doc))]

\* Line 66: the user message handed to the evaluator.
EvaluatorMessages(summary, rules) ==
    <<"Input Summary:\n">> \o summary \o <<"\n\nRules:\n">> \o rules

\* One returned verdict, as the log keeps it with the text it was parsed from.
Validation(str, verdict) == [report_str |-> str, verdict |-> verdict]

\* json.dumps on the way out of the validator, json.loads in main (line 147).
json_dumps(data) == [json |-> data]
json_loads(text) == text.json

----------------------------------------------------------------------------
(* LeadReviewerAgent.consolidate_all_reports, lines 31-36 *)

\* The section for missing detailed reviews left out.
BuildReportDetails_OmitsEmpty(structural_report, other_reports_summary) ==
    <<"Structural Review:\n">> \o structural_report \o <<"\n\n">>
    \o (IF other_reports_summary # <<>>
        THEN <<"Detailed Reviews Summary:\n">> \o other_reports_summary \o <<"\n">>
        ELSE <<>>)

BuildReportDetails(structural_report, other_reports_summary) ==
    <<"Structural Review:\n">> \o structural_report \o <<"\n\n">>
    \o (IF other_reports_summary # <<>>
        THEN <<"Detailed Reviews Summary:\n">> \o other_reports_summary \o <<"\n">>
        ELSE <<"Detailed reviews were not performed or results were not available.\n">>)

\* report_details kept on the agent and extended by every call.
FreshReportDetails_Accumulates(previous, structural_report, other_reports_summary) ==
    (IF previous = NoText THEN <<>> ELSE previous)
    \o BuildReportDetails(structural_report, other_reports_summary)

\* Line 31: report_details is a local, assigned anew in every call; what an
\* earlier call built (previous) is not read.
FreshReportDetails(previous, structural_report, other_reports_summary) ==
    BuildReportDetails(structural_report, other_reports_summary)

\* One completed call, as the log keeps it.
Consolidation(args, details, report) ==
    [args |-> args, report_details |-> details, final_report |-> report]

----------------------------------------------------------------------------
(* main.py *)

EnvNames ==
    {"AZURE_OPENAI_ENDPOINT_FAST", "AZURE_OPENAI_API_KEY_FAST",
     "AZURE_OPENAI_DEPLOYMENT_NAME_FAST", "AZURE_OPENAI_ENDPOINT_COMPLEX",
     "AZURE_OPENAI_API_KEY_COMPLEX", "AZURE_DEPLOYMENT_NAME_COMPLEX",
     "AZURE_DOC_INTEL_ENDPOINT", "AZURE_DOC_INTEL_API_KEY"}

\* os.getenv gives None for an unset variable and "" for an empty one.
EnvValues == {"unset", "empty", "set"}

\* A check that only asks whether each variable is defined.
ConfigComplete_IsNotNone(e) == \A n \in EnvNames : e[n] # "unset"

\* Lines 44-45: all([...]) over the eight values read.
ConfigComplete(e) == \A n \in EnvNames : e[n] = "set"

\* The existence check left out.
DocumentFound_Unchecked(files) == TRUE

\* Line 106: os.path.exists(document_to_review).
DocumentFound(files) == files.document

Plans           == {<<"plan A">>, <<"plan B">>}
Summaries       == {<<"summary A">>, <<"summary B">>}
SecurityReports == {<<>>, <<"security findings">>}
FinalReports    == {<<"final document A">>, <<"final document B">>}

\* Lines 148-149: what main reads from the parsed verdict.
ReportTextOf(data) ==
    PyStr(Get(data.report_text, JStr(<<"No structural report text.">>)))
FlagOf(data) == Get(data.has_critical_errors, JFalse)

\* The flag compared with True instead of tested for truth.
HaltBranch_IsTrue(flag) == flag = JTrue

\* The branch chosen by the generated plan instead of the verdict.
HaltBranch_PlanDecides(flag) == plan = <<"plan A">>

\* Line 154: if has_critical_errors
HaltBranch(flag) == Truthy(flag)

\* The review branch entered whatever the flag.
ReviewBranch_Unconditional(flag) == TRUE

\* Line 161: else
ReviewBranch(flag) == ~HaltBranch(flag)

\* The halt notice built from the flag's reason without a default.
HaltNotice_NoDefault(data) ==
    <<"Architecture review halted due to critical structural errors:\n">>
    \o PyStr(data.critical_error_reason)

\* Line 156: the halt notice.
HaltNotice(data) ==
    <<"Architecture review halted due to critical structural errors:\n">>
    \o PyStr(Get(data.critical_error_reason, JStr(<<"Reason not specified.">>)))

\* The halt notice passed on without the text that says no review was made.
HaltOtherReports_NoticeOnly(data) == HaltNotice(data)

\* Line 159.
HaltOtherReports(data) ==
    <<"No further detailed reviews performed due to critical structural errors. ">>
    \o HaltNotice(data)

\* The security reviewer called with an empty summary.
SecurityInput_Empty(summary) == <<>>

\* Line 168: the security reviewer is called with comprehensive_summary.
SecurityInput(summary) == summary

\* Line 168: the review tasks handed to asyncio.gather, in launch order.
ReviewTasks == <<"security">>

\* The security section without its label.
ReviewOtherReports_Unlabeled(security_report) == security_report

\* The security section passed on only when the review found something.
ReviewOtherReports_OnlyFindings(security_report) ==
    IF security_report = <<>> THEN <<>>
    ELSE <<"Security Review Report:\n">> \o security_report

\* Line 183.
ReviewOtherReports(security_report) ==
    <<"Security Review Report:\n">> \o security_report

\* What main writes to standard output, besides banners.
\* Line 141: the first 500 characters of the summary.
EmitSummary(out) == Append(out, "summary")

\* Line 151: the structural report text.
EmitStructuralReport(out) == Append(out, "structural_report")

\* Line 177: the first 500 characters of the security report.
EmitSecurityReport(out) == Append(out, "security_report")

\* The final document written out twice.
EmitFinalReport_Twice(out) == Append(Append(out, "final_report"), "final_report")

\* Line 187: the final document.
EmitFinalReport(out) == Append(out, "final_report")

\* asyncio.gather returning without waiting for the tasks.
AllDone_NoWait(tasks, res) == TRUE

\* Line 173: asyncio.gather returns once every task handed to it is done.
AllDone(tasks, res) == \A i \in 1..Len(tasks) : tasks[i] \in DOMAIN res

\* Line 173-174: the results, by position of the task in the call.
Gathered(tasks, res) ==
    [i \in 1..Len(tasks) |-> IF tasks[i] \in DOMAIN res THEN res[tasks[i]] ELSE NoText]

NoArgs == [structural_report |-> NoText, other_reports_summary |-> NoText]

Init ==
    /\ pc = "start"
    /\ env \in [EnvNames -> EnvValues]
    /\ fs \in [document : BOOLEAN]
    /\ calls = [planner |-> 0, processor |-> 0, validator |-> 0, evaluator |-> 0,
                security |-> 0, consolidator |-> 0]
    /\ history = <<>>
    /\ printed = <<>>
    /\ plan = NoText
    /\ comprehensive_summary = NoText
    /\ rule_file = NoRuleFile
    /\ structural_rules = NoText
    /\ report_str = NoRaw
    /\ structure_validation_data = NoVerdict
    /\ structural_report_text = NoText
    /\ has_critical_errors = Absent
    /\ validator_input = NoText
    /\ security_input = NoText
    /\ launched = <<>>
    /\ results = [t \in {} |-> NoText]
    /\ unresolved = {}
    /\ consolidations = <<>>
    /\ consolidator_args = NoArgs
    /\ report_details = NoText
    /\ final_report = NoText
    /\ failure = "none"
    /\ evaluator_messages = NoText
    /\ validations = <<>>
    /\ document_text = NoText
    /\ summarizer_messages = NoText

Called(who) == calls' = [calls EXCEPT ![who] = @ + 1]

\* An exception main does not catch: asyncio.run(main()) ends with it.
Raise(where) ==
    /\ pc' = "failed"
    /\ failure' = where

\* The consolidator's exception caught and the run carried on to the report.
ConsolidatorRaises_Swallowed ==
    /\ pc' = "present"
    /\ failure' = "consolidator"

\* lead_reviewer_agent.py:61 raises; neither the agent nor main (lines 157,
\* 181) catches it.
ConsolidatorRaises == Raise("consolidator")

\* Lines 29-47: read the configuration; report and return when a value is missing.
CheckConfiguration ==
    /\ pc = "start"
    /\ IF ConfigComplete(env)
       THEN /\ pc' = "setup"
            /\ printed' = printed
       ELSE /\ pc' = "returned"
            /\ printed' = Append(printed, "Error: Missing one or more environment variables.")
    /\ UNCHANGED <<evaluator_messages, validations, document_text, summarizer_messages,
                   unresolved, consolidations, env, fs, calls, history, plan, comprehensive_summary, rule_file,
                   structural_rules, report_str, structure_validation_data,
                   structural_report_text, has_critical_errors, validator_input,
                   security_input, launched, results, consolidator_args,
                   report_details, final_report, failure>>

\* Lines 50-109: kernel, plugins and agents are set up, then the document is
\* looked for; main returns when it is not there.
CheckDocument ==
    /\ pc = "setup"
    /\ IF DocumentFound(fs)
       THEN /\ pc' = "create_plan"
            /\ printed' = printed
       ELSE /\ pc' = "returned"
            /\ printed' = Append(printed, "Error: Sample document not found.")
    /\ UNCHANGED <<evaluator_messages, validations, document_text, summarizer_messages,
                   unresolved, consolidations, env, fs, calls, history, plan, comprehensive_summary, rule_file,
                   structural_rules, report_str, structure_validation_data,
                   structural_report_text, has_critical_errors, validator_input,
                   security_input, launched, results, consolidator_args,
                   report_details, final_report, failure>>

\* Lines 125-132: await planner.create_plan(goal), then print the plan.
CreatePlan ==
    /\ pc = "create_plan"
    /\ Called("planner")
    /\ \/ \E p \in Plans :
             /\ plan' = p
             /\ printed' = Append(printed, "plan")
             /\ pc' = "process_document"
             /\ UNCHANGED failure
       \/ /\ Raise("planner")
          /\ UNCHANGED <<plan, printed>>
    /\ UNCHANGED <<evaluator_messages, validations, document_text, summarizer_messages,
                   unresolved, consolidations, env, fs, history, comprehensive_summary, rule_file,
                   structural_rules, report_str, structure_validation_data,
                   structural_report_text, has_critical_errors, validator_input,
                   security_input, launched, results, consolidator_args,
                   report_details, final_report>>

\* Lines 138-141: await doc_processing_agent.process_document(...), then print
\* the first 500 characters of the summary.
ProcessDocument ==
    /\ pc = "process_document"
    /\ Called("processor")
    /\ history' = Append(history, "ProcessingDocument")
    /\ \/ \E s \in Summaries :
             /\ comprehensive_summary' = s
             /\ printed' = EmitSummary(printed)
             /\ pc' = "validate"
             /\ UNCHANGED failure
       \/ /\ Raise("processor")
          /\ UNCHANGED <<comprehensive_summary, printed>>
    /\ UNCHANGED <<evaluator_messages, validations, document_text, summarizer_messages,
                   unresolved, consolidations, env, fs, plan, rule_file, structural_rules, report_str,
                   structure_validation_data, structural_report_text,
                   has_critical_errors, validator_input, security_input, launched,
                   results, consolidator_args, report_details, final_report>>

\* main.py:146 calls the validator; structure_validator_agent.py:34-38 loads
\* the rules (the first await of the validator).
ValidatorLoadRules ==
    /\ pc = "validate"
    /\ Called("validator")
    /\ history' = Append(history, "ValidatingStructure")
    /\ validator_input' = comprehensive_summary
    /\ \E f \in RuleFiles :
          /\ rule_file' = f
          /\ structural_rules' = load_rules(f)
    /\ pc' = "evaluating"
    /\ UNCHANGED <<evaluator_messages, validations, document_text, summarizer_messages,
                   unresolved, consolidations, env, fs, printed, plan, comprehensive_summary, report_str,
                   structure_validation_data, structural_report_text,
                   has_critical_errors, security_input, launched, results,
                   consolidator_args, report_details, final_report, failure>>

\* structure_validator_agent.py:65-113: the evaluator answers (or the call
\* raises, outside the try), the answer is turned into the verdict and
\* returned; main.py:147-151 parses it, reads report_text and
\* has_critical_errors and prints the report text.
ValidatorEvaluate ==
    /\ pc = "evaluating"
    /\ Called("evaluator")
    /\ evaluator_messages' = EvaluatorMessages(validator_input, structural_rules)
    /\ \/ \E raw \in RawResponses :
             LET returned == json_dumps(validate_document_structure(raw))
                 data     == json_loads(returned)
             IN /\ report_str' = StripFence(raw)
                /\ validations' = Append(validations, Validation(StripFence(raw), data))
                /\ structure_validation_data' = data
                /\ structural_report_text' = ReportTextOf(data)
                /\ has_critical_errors' = FlagOf(data)
                /\ printed' = EmitStructuralReport(printed)
                /\ pc' = "branch"
                /\ UNCHANGED failure
       \/ /\ Raise("evaluator")
          /\ UNCHANGED <<report_str, validations, structure_validation_data,
                         structural_report_text, has_critical_errors, printed>>
    /\ UNCHANGED <<document_text, summarizer_messages, unresolved, consolidations,
                   env, fs, history, plan, comprehensive_summary, rule_file,
                   structural_rules, validator_input, security_input, launched,
                   results, consolidator_args, report_details, final_report>>

\* consolidate_all_reports is entered: lines 29-49 of lead_reviewer_agent.py
\* build report_details and hand it to the LLM.
CallConsolidator(structural, other) ==
    /\ consolidator_args' = [structural_report |-> structural,
                             other_reports_summary |-> other]
    /\ report_details' = FreshReportDetails(report_details, structural, other)

\* Lines 154-160: the handoff; no review is started.
HandoffCritical ==
    /\ pc = "branch"
    /\ HaltBranch(has_critical_errors)
    /\ history' = Append(Append(history, "HandoffCritical"), "Consolidating")
    /\ Called("consolidator")
    /\ CallConsolidator(structural_report_text,
                        HaltOtherReports(structure_validation_data))
    /\ pc' = "consolidating"
    /\ UNCHANGED <<evaluator_messages, validations, document_text, summarizer_messages,
                   unresolved, consolidations, env, fs, printed, plan, comprehensive_summary, rule_file,
                   structural_rules, report_str, structure_validation_data,
                   structural_report_text, has_critical_errors, validator_input,
                   security_input, launched, results, final_report, failure>>

\* Lines 161-173: the security review is created and handed to gather.
LaunchReviews ==
    /\ pc = "branch"
    /\ ReviewBranch(has_critical_errors)
    /\ history' = Append(history, "ReviewingSecurity")
    /\ Called("security")
    /\ security_input' = SecurityInput(comprehensive_summary)
    /\ launched' = ReviewTasks
    /\ pc' = "reviewing"
    /\ UNCHANGED <<evaluator_messages, validations, document_text, summarizer_messages,
                   unresolved, consolidations, env, fs, printed, plan, comprehensive_summary, rule_file,
                   structural_rules, report_str, structure_validation_data,
                   structural_report_text, has_critical_errors, validator_input,
                   results, consolidator_args, report_details, final_report,
                   failure>>

Pending(t) == t \notin DOMAIN results

\* security_architect_agent.py:55-57: a launched review returns its report,
\* or raises, and gather (main.py:173) re-raises it into main.
ReviewCompletes ==
    /\ pc = "reviewing"
    /\ \E i \in 1..Len(launched) :
          /\ Pending(launched[i])
          /\ launched[i] \notin unresolved
          /\ \/ \E r \in SecurityReports :
                   /\ results' = [t \in DOMAIN results \cup {launched[i]} |->
                                     IF t = launched[i] THEN r ELSE results[t]]
                   /\ UNCHANGED <<pc, failure>>
             \/ /\ Raise("security")
                /\ UNCHANGED results
    /\ UNCHANGED <<evaluator_messages, validations, document_text, summarizer_messages,
                   unresolved, consolidations, env, fs, calls, history, printed, plan, comprehensive_summary,
                   rule_file, structural_rules, report_str,
                   structure_validation_data, structural_report_text,
                   has_critical_errors, validator_input, security_input, launched,
                   consolidator_args, report_details, final_report>>

\* security_architect_agent.py:55: the awaited LLM call never answers; nothing
\* in the agent or in main.py:173 bounds the wait.
ReviewStaysUnresolved ==
    /\ pc = "reviewing"
    /\ \E i \in 1..Len(launched) :
          /\ Pending(launched[i])
          /\ launched[i] \notin unresolved
          /\ unresolved' = unresolved \cup {launched[i]}
    /\ UNCHANGED <<evaluator_messages, validations, document_text, summarizer_messages,
                   consolidations, env, fs, calls, history, printed, plan,
                   comprehensive_summary, rule_file, structural_rules, report_str,
                   structure_validation_data, structural_report_text,
                   has_critical_errors, validator_input, security_input, launched,
                   results, consolidator_args, report_details, final_report, pc,
                   failure>>

\* Lines 173-184: gather returns the results in launch order once every task
\* is done; the security report is printed and the consolidator is called.
GatherAndConsolidate ==
    /\ pc = "reviewing"
    /\ AllDone(launched, results)
    /\ LET gathered == Gathered(launched, results)
           security_report == gathered[1]
       IN /\ printed' = EmitSecurityReport(printed)
          /\ CallConsolidator(structural_report_text,
                              ReviewOtherReports(security_report))
    /\ history' = Append(history, "Consolidating")
    /\ Called("consolidator")
    /\ pc' = "consolidating"
    /\ UNCHANGED <<evaluator_messages, validations, document_text, summarizer_messages,
                   unresolved, consolidations, env, fs, plan, comprehensive_summary, rule_file,
                   structural_rules, report_str, structure_validation_data,
                   structural_report_text, has_critical_errors, validator_input,
                   security_input, launched, results, final_report, failure>>

\* lead_reviewer_agent.py:61-63: the consolidation LLM call returns or raises.
ConsolidatorReturns ==
    /\ pc = "consolidating"
    /\ \/ \E r \in FinalReports :
             /\ final_report' = r
             /\ consolidations' =
                  Append(consolidations, Consolidation(consolidator_args, report_details, r))
             /\ pc' = "present"
             /\ UNCHANGED failure
       \/ /\ ConsolidatorRaises
          /\ UNCHANGED <<final_report, consolidations>>
    /\ UNCHANGED <<evaluator_messages, validations, document_text, summarizer_messages,
                   unresolved, env, fs, calls, history, printed, plan, comprehensive_summary,
                   rule_file, structural_rules, report_str,
                   structure_validation_data, structural_report_text,
                   has_critical_errors, validator_input, security_input, launched,
                   results, consolidator_args, report_details>>

\* Lines 186-188: the final document is printed.
PresentReport ==
    /\ pc = "present"
    /\ printed' = EmitFinalReport(printed)
    /\ history' = Append(history, "Done")
    /\ pc' = "done"
    /\ UNCHANGED <<evaluator_messages, validations, document_text, summarizer_messages,
                   unresolved, consolidations, env, fs, calls, plan, comprehensive_summary, rule_file,
                   structural_rules, report_str, structure_validation_data,
                   structural_report_text, has_critical_errors, validator_input,
                   security_input, launched, results, consolidator_args,
                   report_details, final_report, failure>>

Next ==
    \/ CheckConfiguration
    \/ CheckDocument
    \/ CreatePlan
    \/ ProcessDocument
    \/ ValidatorLoadRules
    \/ ValidatorEvaluate
    \/ HandoffCritical
    \/ LaunchReviews
    \/ ReviewCompletes
    \/ ReviewStaysUnresolved
    \/ GatherAndConsolidate
    \/ ConsolidatorReturns
    \/ PresentReport

Spec == Init /\ [][Next]_vars

----------------------------------------------------------------------------
(* consolidate_all_reports called on its own, several times on one agent *)

MaxConsolidations == 2    \* calls made on the agent

\* Arguments the calls draw from: structural report texts and supplementary
\* findings, the empty string (the parameter's default) among them.
StructuralInputs ==
    { RenderReportText(Verdict(EvalsList(<<>>), JFalse, Absent, Absent)),
      RenderReportText(Verdict(EvalsList(<<>>), JTrue, JStr(<<"missing section">>), Absent)),
      PyStr(MalformedVerdict(Raw("none", "garbage", NoVerdict)).report_text),
      <<>> }

OtherInputs ==
    { <<>>,
      ReviewOtherReports(<<"security findings">>),
      ReviewOtherReports(<<>>),
      HaltOtherReports(Verdict(EvalsList(<<>>), JTrue, JStr(<<"missing section">>), Absent)) }

\* The generation service taken as deterministic: the document it returns is a
\* function of the review findings it is sent (lead_reviewer_agent.py:55-63).
Generate(details) == <<"<document for>">> \o details

ConsolidateInit ==
    /\ pc = "agent_idle"
    /\ env = [n \in EnvNames |-> "set"]
    /\ fs = [document |-> TRUE]
    /\ calls = [planner |-> 0, processor |-> 0, validator |-> 0, evaluator |-> 0,
                security |-> 0, consolidator |-> 0]
    /\ history = <<>>
    /\ printed = <<>>
    /\ plan = NoText
    /\ comprehensive_summary = NoText
    /\ rule_file = NoRuleFile
    /\ structural_rules = NoText
    /\ report_str = NoRaw
    /\ structure_validation_data = NoVerdict
    /\ structural_report_text = NoText
    /\ has_critical_errors = Absent
    /\ validator_input = NoText
    /\ security_input = NoText
    /\ launched = <<>>
    /\ results = [t \in {} |-> NoText]
    /\ unresolved = {}
    /\ consolidations = <<>>
    /\ consolidator_args = NoArgs
    /\ report_details = NoText
    /\ final_report = NoText
    /\ failure = "none"
    /\ evaluator_messages = NoText
    /\ validations = <<>>
    /\ document_text = NoText
    /\ summarizer_messages = NoText

\* Lines 29-53: the call builds report_details and sends it to the service.
ConsolidateCalled ==
    /\ pc = "agent_idle"
    /\ calls.consolidator < MaxConsolidations
    /\ \E a \in StructuralInputs, b \in OtherInputs : CallConsolidator(a, b)
    /\ Called("consolidator")
    /\ pc' = "agent_busy"
    /\ UNCHANGED <<evaluator_messages, validations, document_text, summarizer_messages,
                   unresolved, consolidations, env, fs, history, printed, plan,
                   comprehensive_summary, rule_file, structural_rules, report_str,
                   structure_validation_data, structural_report_text,
                   has_critical_errors, validator_input, security_input, launched,
                   results, final_report, failure>>

\* Lines 55-63: the service answers and the call returns the document.
ConsolidateAnswered ==
    /\ pc = "agent_busy"
    /\ final_report' = Generate(report_details)
    /\ consolidations' =
         Append(consolidations,
                Consolidation(consolidator_args, report_details, Generate(report_details)))
    /\ pc' = "agent_idle"
    /\ UNCHANGED <<evaluator_messages, validations, document_text, summarizer_messages,
                   unresolved, env, fs, calls, history, printed, plan,
                   comprehensive_summary, rule_file, structural_rules, report_str,
                   structure_validation_data, structural_report_text,
                   has_critical_errors, validator_input, security_input, launched,
                   results, consolidator_args, report_details, failure>>

ConsolidateNext == ConsolidateCalled \/ ConsolidateAnswered

SpecConsolidate == ConsolidateInit /\ [][ConsolidateNext]_vars

----------------------------------------------------------------------------
(* validate_document_structure called on its own, several times on one agent *)

MaxValidations == 2    \* calls made on the agent

\* The reason text the validator itself writes on a JSONDecodeError (line 102).
MalformedReason == MalformedVerdict(Raw("none", "garbage", NoVerdict)).critical_error_reason

\* Answers of the evaluator the calls draw from: objects with and without
\* evaluations, flag, reason and a report_text of their own; the reason may be
\* any string, the one of line 102 included; and answers that are no object.
ValidatorAnswers ==
    { Raw("none", "object", Verdict(ev, f, r, t)) :
        ev \in { EvalsList(<<>>),
                 EvalsList(<<EvalItem(JStr(<<"R1">>), JStr(<<"Violated">>), JStr(<<"why">>))>>) },
        f \in {Absent, JTrue, JFalse},
        r \in {Absent, JStr(<<"missing section">>), MalformedReason},
        t \in {Absent, JStr(<<"hand-written report">>)} }
    \cup { Raw("none", k, NoVerdict) : k \in {"garbage", "array"} }

ValidateInit ==
    /\ pc = "validator_idle"
    /\ env = [n \in EnvNames |-> "set"]
    /\ fs = [document |-> TRUE]
    /\ calls = [planner |-> 0, processor |-> 0, validator |-> 0, evaluator |-> 0,
                security |-> 0, consolidator |-> 0]
    /\ history = <<>>
    /\ printed = <<>>
    /\ plan = NoText
    /\ comprehensive_summary = NoText
    /\ rule_file = NoRuleFile
    /\ structural_rules = NoText
    /\ report_str = NoRaw
    /\ structure_validation_data = NoVerdict
    /\ structural_report_text = NoText
    /\ has_critical_errors = Absent
    /\ validator_input = NoText
    /\ security_input = NoText
    /\ launched = <<>>
    /\ results = [t \in {} |-> NoText]
    /\ unresolved = {}
    /\ consolidations = <<>>
    /\ consolidator_args = NoArgs
    /\ report_details = NoText
    /\ final_report = NoText
    /\ failure = "none"
    /\ evaluator_messages = NoText
    /\ validations = <<>>
    /\ document_text = NoText
    /\ summarizer_messages = NoText

\* Lines 33-69: the call loads the rules and builds the evaluator's message.
ValidateCalled ==
    /\ pc = "validator_idle"
    /\ calls.validator < MaxValidations
    /\ Called("validator")
    /\ validator_input' = <<"summary A">>
    /\ rule_file' = [exists |-> TRUE, readable |-> TRUE, rules |-> <<Rule(1, TRUE)>>]
    /\ structural_rules' = load_rules(rule_file')
    /\ evaluator_messages' = EvaluatorMessages(validator_input', structural_rules')
    /\ pc' = "validator_busy"
    /\ UNCHANGED <<validations, document_text, summarizer_messages, unresolved,
                   consolidations, env, fs, history, printed, plan,
                   comprehensive_summary, report_str, structure_validation_data,
                   structural_report_text, has_critical_errors, security_input,
                   launched, results, consolidator_args, report_details,
                   final_report, failure>>

\* Lines 71-113: the evaluator answers and the call returns the verdict.
ValidateAnswered ==
    /\ pc = "validator_busy"
    /\ \E raw \in ValidatorAnswers :
          /\ report_str' = StripFence(raw)
          /\ validations' =
               Append(validations,
                      Validation(StripFence(raw), json_loads(json_dumps(validate_document_structure(raw)))))
    /\ pc' = "validator_idle"
    /\ UNCHANGED <<evaluator_messages, document_text, summarizer_messages, unresolved,
                   consolidations, env, fs, calls, history, printed, plan,
                   comprehensive_summary, rule_file, structural_rules,
                   structure_validation_data, structural_report_text,
                   has_critical_errors, validator_input, security_input, launched,
                   results, consolidator_args, report_details, final_report, failure>>

ValidateNext == ValidateCalled \/ ValidateAnswered

SpecValidate == ValidateInit /\ [][ValidateNext]_vars

----------------------------------------------------------------------------
(* DocumentProcessingAgent.process_document, from its body *)

MaxPages == 3    \* pages of text the extraction returns

PageTexts == {"heading", "paragraph", "table", "caption"}

\* Texts ExtractDocumentText may return (line 37).
DocumentTexts == UNION { [1..n -> PageTexts] : n \in 0..MaxPages }

\* The names bound in process_document when line 66 is evaluated: the
\* parameters and the locals assigned at lines 37, 43 and 48.
ProcessLocals ==
    [self            |-> <<"<agent>">>,
     file_path       |-> <<"test_data/arb.pdf">>,
     document_text   |-> document_text,
     image_summary   |-> <<>>,
     prompt_template |-> <<"<summarizer prompt>">>]

\* Line 67: the name passed as messages= to the summarizer.
MessagesArgument == "full_content_to_summarize"

ProcessInit ==
    /\ pc = "process_entry"
    /\ env = [n \in EnvNames |-> "set"]
    /\ fs = [document |-> TRUE]
    /\ calls = [planner |-> 0, processor |-> 0, validator |-> 0, evaluator |-> 0,
                security |-> 0, consolidator |-> 0]
    /\ history = <<>>
    /\ printed = <<>>
    /\ plan = NoText
    /\ comprehensive_summary = NoText
    /\ rule_file = NoRuleFile
    /\ structural_rules = NoText
    /\ report_str = NoRaw
    /\ structure_validation_data = NoVerdict
    /\ structural_report_text = NoText
    /\ has_critical_errors = Absent
    /\ validator_input = NoText
    /\ security_input = NoText
    /\ launched = <<>>
    /\ results = [t \in {} |-> NoText]
    /\ unresolved = {}
    /\ consolidations = <<>>
    /\ consolidator_args = NoArgs
    /\ report_details = NoText
    /\ final_report = NoText
    /\ failure = "none"
    /\ evaluator_messages = NoText
    /\ validations = <<>>
    /\ document_text = NoText
    /\ summarizer_messages = NoText

\* Lines 33-38: await the text extraction; its exception is not caught.
ProcessExtract ==
    /\ pc = "process_entry"
    /\ Called("processor")
    /\ \/ \E t \in DocumentTexts :
             /\ document_text' = t
             /\ pc' = "process_summarize"
             /\ UNCHANGED failure
       \/ /\ Raise("extraction")
          /\ UNCHANGED document_text
    /\ UNCHANGED <<evaluator_messages, validations, summarizer_messages, unresolved,
                   consolidations, env, fs, history, printed, plan,
                   comprehensive_summary, rule_file, structural_rules, report_str,
                   structure_validation_data, structural_report_text,
                   has_critical_errors, validator_input, security_input, launched,
                   results, consolidator_args, report_details, final_report>>

\* Lines 43-74: the arguments of the summarizer call are evaluated (a name
\* that is not bound raises NameError before the call is made), the call is
\* awaited and its content returned.
ProcessSummarize ==
    /\ pc = "process_summarize"
    /\ IF MessagesArgument \in DOMAIN ProcessLocals
       THEN /\ summarizer_messages' = ProcessLocals[MessagesArgument]
            /\ \/ \E sm \in Summaries :
                     /\ comprehensive_summary' = sm
                     /\ pc' = "process_returned"
                     /\ UNCHANGED failure
               \/ /\ Raise("summarization")
                  /\ UNCHANGED comprehensive_summary
       ELSE /\ Raise("NameError")
            /\ UNCHANGED <<summarizer_messages, comprehensive_summary>>
    /\ UNCHANGED <<evaluator_messages, validations, document_text, unresolved,
                   consolidations, env, fs, calls, history, printed, plan, rule_file,
                   structural_rules, report_str, structure_validation_data,
                   structural_report_text, has_critical_errors, validator_input,
                   security_input, launched, results, consolidator_args,
                   report_details, final_report>>

ProcessNext == ProcessExtract \/ ProcessSummarize

SpecProcess == ProcessInit /\ [][ProcessNext]_vars

----------------------------------------------------------------------------
(* Properties *)

VerdictRead == pc \in {"branch", "reviewing", "consolidating", "present", "done"}
                  \/ (pc = "failed" /\ failure \in {"security", "consolidator"})

InHistory(stage) == Contains(history, stage)

\* C1: when the verdict main has read carries a true has_critical_errors, the
\* security review (the only detailed review) is never invoked in that run.
C1_NoReviewAfterCriticalVerdict ==
    Truthy(has_critical_errors) =>
        /\ calls.security = 0
        /\ launched = <<>>
        /\ security_input = NoText

C1_Witness ==
    /\ pc = "done"
    /\ Truthy(has_critical_errors)
    /\ calls.consolidator = 1
    /\ calls.security = 0

\* The evaluator's answer has the shape of a verdict: a JSON object that
\* carries a boolean has_critical_errors.
HasVerdictShape(str) ==
    /\ JsonDecodes(str)
    /\ str.kind = "object"
    /\ str.doc.has_critical_errors.t = "bool"

\* The cases named as not interpretable: the answer is no JSON, is JSON but
\* no object, or is an object without has_critical_errors.
MissesVerdictShape(str) ==
    \/ ~JsonDecodes(str)
    \/ str.kind # "object"
    \/ str.doc.has_critical_errors = Absent

\* C2: when the validator's output cannot be read as a well-formed verdict
\* (it lacks has_critical_errors, or is no object), the orchestrator treats the
\* run as critical: it takes the halt branch and never starts the security review.
C2_MalformedOutputHalts ==
    (VerdictRead /\ MissesVerdictShape(report_str)) =>
        /\ calls.security = 0
        /\ ~InHistory("ReviewingSecurity")
        /\ calls.consolidator > 0 => InHistory("HandoffCritical")

\* C3: for every evaluator output that is not parseable into the verdict
\* shape, the validator returns a verdict with has_critical_errors = true and
\* a critical_error_reason containing the word "malformed".
C3_UnparseableOutputGivesMalformedVerdict ==
    (VerdictRead /\ MissesVerdictShape(report_str)) =>
        /\ structure_validation_data.has_critical_errors = JTrue
        /\ structure_validation_data.critical_error_reason.t = "str"
        /\ Contains(structure_validation_data.critical_error_reason.v, "malformed")

\* C4: a failing security review does not abort the run: a placeholder
\* "review unavailable" stands in for its report, the consolidator is still
\* called and the run still ends with a final report.
C4_ReviewFailureDoesNotAbort ==
    ~(pc = "failed" /\ failure = "security")

\* C5: in the no-critical-error branch the text passed to the consolidator
\* holds the labeled output of every launched review, in launch order; with the
\* single security reviewer it is "Security Review Report:\n" followed by the
\* report that reviewer returned.
C5_OtherReportsInLaunchOrder ==
    (calls.consolidator > 0 /\ launched # <<>>) =>
        /\ launched = <<"security">>
        /\ \A i \in 1..Len(launched) : launched[i] \in DOMAIN results
        /\ consolidator_args.other_reports_summary
             = <<"Security Review Report:\n">> \o results[launched[1]]

C5_Witness ==
    /\ pc = "done"
    /\ launched = <<"security">>
    /\ results["security"] = <<"security findings">>
    /\ consolidator_args.other_reports_summary
         = <<"Security Review Report:\n", "security findings">>

\* A rule marked critical in the rule file is evaluated as Violated in the verdict.
CriticalRuleViolated(file, data) ==
    \E i \in 1..Len(file.rules), k \in 1..Len(data.rule_evaluations.items) :
        /\ file.rules[i].critical
        /\ data.rule_evaluations.items[k].id = JStr(<<file.rules[i].id>>)
        /\ data.rule_evaluations.items[k].status = JStr(<<"Violated">>)

\* C6: if a rule marked critical is evaluated as Violated in the rule
\* evaluations of a verdict (one with a boolean flag), the returned verdict has
\* has_critical_errors = true and a non-empty critical_error_reason.
C6_CriticalViolationSetsFlag ==
    (VerdictRead /\ HasVerdictShape(report_str)
       /\ CriticalRuleViolated(rule_file, structure_validation_data)) =>
        /\ structure_validation_data.has_critical_errors = JTrue
        /\ Truthy(structure_validation_data.critical_error_reason)

NoPipelineCall ==
    /\ calls.processor = 0
    /\ calls.validator = 0
    /\ calls.evaluator = 0
    /\ calls.security = 0
    /\ calls.consolidator = 0

\* C8: if the document path does not exist, the run ends before any call to
\* the document processor, the validator, the security reviewer or the
\* consolidator, and no final report is produced.
C8_MissingDocumentAborts ==
    ~fs.document =>
        /\ NoPipelineCall
        /\ final_report = NoText
        /\ ~Contains(printed, "final_report")
        /\ pc \in {"start", "setup", "returned"}

C8_Witness ==
    /\ pc = "returned"
    /\ ~fs.document
    /\ \A n \in EnvNames : env[n] = "set"
    /\ printed = <<"Error: Sample document not found.">>

\* C9: if a required configuration value is missing (unset or empty) at
\* startup, the run ends with a reported error before any pipeline stage
\* (planning included) is invoked.
C9_MissingConfigurationAborts ==
    (\E n \in EnvNames : env[n] # "set") =>
        /\ NoPipelineCall
        /\ calls.planner = 0
        /\ history = <<>>
        /\ pc \in {"start", "returned"}
        /\ pc = "returned" =>
               printed = <<"Error: Missing one or more environment variables.">>

C9_Witness ==
    /\ pc = "returned"
    /\ env["AZURE_DOC_INTEL_API_KEY"] = "empty"
    /\ \A n \in EnvNames \ {"AZURE_DOC_INTEL_API_KEY"} : env[n] = "set"
    /\ printed = <<"Error: Missing one or more environment variables.">>

\* The two paths of a run; ProcessingDocument is process_document, which
\* covers Extracting and Summarizing.
HaltPath ==
    <<"ProcessingDocument", "ValidatingStructure", "HandoffCritical",
      "Consolidating", "Done">>
ReviewPath ==
    <<"ProcessingDocument", "ValidatingStructure", "ReviewingSecurity",
      "Consolidating", "Done">>

\* C10: the stages of a run are entered in the order ProcessingDocument,
\* ValidatingStructure, exactly one of HandoffCritical / ReviewingSecurity (the
\* one the verdict's flag selects), Consolidating, Done: none skipped or
\* repeated, and each only once the previous stage's output is there.
C10_StagesInOrder ==
    /\ IsPrefix(history, HaltPath) \/ IsPrefix(history, ReviewPath)
    /\ InHistory("ValidatingStructure") =>
           /\ comprehensive_summary \in Summaries
           /\ validator_input = comprehensive_summary
    /\ InHistory("HandoffCritical") =>
           /\ structure_validation_data # NoVerdict
           /\ Truthy(has_critical_errors)
    /\ InHistory("ReviewingSecurity") =>
           /\ structure_validation_data # NoVerdict
           /\ ~Truthy(has_critical_errors)
           /\ security_input = comprehensive_summary
    /\ (InHistory("ReviewingSecurity") /\ InHistory("Consolidating")) =>
           "security" \in DOMAIN results
    /\ InHistory("Consolidating") => consolidator_args # NoArgs
    /\ InHistory("Done") => final_report \in FinalReports

C10_Witness ==
    /\ pc = "done"
    /\ history = ReviewPath

Count(seq, x) == Cardinality({i \in 1..Len(seq) : seq[i] = x})

\* C11: a run that reaches Done has invoked the consolidator exactly once and
\* has emitted exactly one final report, as its last output; a run that has not
\* reached Done has emitted no final report.
C11_OneFinalReportAtDone ==
    /\ pc = "done" =>
          /\ calls.consolidator = 1
          /\ Len(consolidations) = 1
          /\ Count(printed, "final_report") = 1
          /\ printed[Len(printed)] = "final_report"
    /\ pc # "done" => ~Contains(printed, "final_report")

C11_Witness ==
    /\ pc = "done"
    /\ calls.consolidator = 1
    /\ printed = <<"plan", "summary", "structural_report", "final_report">>

\* C12: in the critical-error branch the consolidator is called with the
\* verdict's report text as structural report and, as other reports, "No
\* further detailed reviews performed due to critical structural errors. "
\* followed by the halt notice that embeds the verdict's critical_error_reason;
\* the text it sends on holds the reason and no "Security Review Report:" section.
C12_HaltBranchArguments ==
    InHistory("HandoffCritical") =>
        /\ consolidator_args.structural_report = structure_validation_data.report_text.v
        /\ Len(consolidator_args.other_reports_summary) >= 2
        /\ consolidator_args.other_reports_summary[1]
             = "No further detailed reviews performed due to critical structural errors. "
        /\ consolidator_args.other_reports_summary[2]
             = "Architecture review halted due to critical structural errors:\n"
        /\ structure_validation_data.critical_error_reason.t = "str" =>
               /\ SubSeq(consolidator_args.other_reports_summary, 3,
                         Len(consolidator_args.other_reports_summary))
                    = structure_validation_data.critical_error_reason.v
               /\ \A i \in 1..Len(structure_validation_data.critical_error_reason.v) :
                      Contains(report_details,
                               structure_validation_data.critical_error_reason.v[i])
        /\ ~Contains(report_details, "Security Review Report:\n")

C12_Witness ==
    /\ pc = "done"
    /\ InHistory("HandoffCritical")
    /\ structure_validation_data.critical_error_reason = JStr(<<"missing section">>)
    /\ Contains(report_details, "missing section")

\* C13: when the security review never completes, the orchestrator does not
\* wait forever: the run can still move on (a timeout ends the wait and the
\* review is handled as failed), so it reaches Done or a reported failure.
C13_UnresolvedReviewIsBounded ==
    (pc = "reviewing" /\ unresolved # {}) => ENABLED Next

\* C14 (as stated): at every point of a run either the final report has been
\* emitted or no report content (summary, structural report text, security
\* findings) has been.
C14_NoContentBeforeFinalReport ==
    \/ Contains(printed, "final_report")
    \/ /\ ~Contains(printed, "summary")
       /\ ~Contains(printed, "structural_report")
       /\ ~Contains(printed, "security_report")

\* C15: when the consolidator call fails, in either branch, the run ends with
\* that failure as its terminal error and emits no final report.
C15_ConsolidationFailureIsTerminal ==
    failure = "consolidator" =>
        /\ pc = "failed"
        /\ final_report = NoText
        /\ consolidations = <<>>
        /\ ~Contains(printed, "final_report")
        /\ ~InHistory("Done")

C15_Witness ==
    /\ pc = "failed"
    /\ failure = "consolidator"
    /\ InHistory("HandoffCritical")
    /\ calls.consolidator = 1

\* C16: a failure inside the validation stage (the rule set cannot be loaded,
\* the evaluator call fails) is contained by the validator and turned into a
\* verdict, so the run goes on to consolidation instead of ending with the
\* raw error.
C16_ValidationFailureContained ==
    /\ ~(pc = "failed" /\ failure \in {"validator", "evaluator"})
    /\ (InHistory("ValidatingStructure") /\ pc \notin {"evaluating", "failed"}) =>
           structure_validation_data # NoVerdict

\* Every rule of the file has an evaluation, and every evaluation a known status.
EvaluatesEveryRule(file, data) ==
    /\ data.rule_evaluations.t = "list"
    /\ \A i \in 1..Len(file.rules) :
          \E k \in 1..Len(data.rule_evaluations.items) :
              data.rule_evaluations.items[k].id = JStr(<<file.rules[i].id>>)
    /\ \A k \in 1..Len(data.rule_evaluations.items) :
          \E st \in Statuses : data.rule_evaluations.items[k].status = JStr(<<st>>)

\* C17: a verdict returned without the critical flag holds one evaluation for
\* each rule supplied, each with a status among Met, Violated, NotApplicable.
C17_VerdictEvaluatesEveryRule ==
    (VerdictRead /\ ~Truthy(has_critical_errors) /\ rule_file.rules # <<>>
       /\ HasVerdictShape(report_str)) =>
        EvaluatesEveryRule(rule_file, structure_validation_data)

\* C18: called with empty supplementary findings, consolidate_all_reports
\* builds review findings that say the detailed reviews were not performed,
\* rather than leaving the section out.
C18_EmptyFindingsAreStated ==
    (calls.consolidator > 0 /\ consolidator_args.other_reports_summary = <<>>) =>
        /\ Contains(report_details,
                    "Detailed reviews were not performed or results were not available.\n")
        /\ ~Contains(report_details, "Detailed Reviews Summary:\n")
        /\ IsPrefix(<<"Structural Review:\n">> \o consolidator_args.structural_report,
                    report_details)

C18_Witness ==
    /\ pc = "agent_idle"
    /\ calls.consolidator = 1
    /\ consolidator_args.other_reports_summary = <<>>
    /\ consolidator_args.structural_report # <<>>
    /\ Len(consolidations) = 1

\* C19: two calls of consolidate_all_reports with the same arguments send the
\* same review findings to the (deterministic) service and return the same
\* final report; nothing kept from an earlier call changes a later one.
C19_ConsolidationIsIdempotent ==
    \A i, k \in 1..Len(consolidations) :
        consolidations[i].args = consolidations[k].args =>
            /\ consolidations[i].report_details = consolidations[k].report_details
            /\ consolidations[i].final_report = consolidations[k].final_report

C19_Witness ==
    /\ Len(consolidations) = 2
    /\ consolidations[1].args = consolidations[2].args
    /\ consolidations[1].args.other_reports_summary # <<>>
    /\ consolidations[1].final_report = consolidations[2].final_report

\* C20: in the no-critical-error branch the consolidator is not called until
\* every launched review task has completed: it never runs with the results
\* of only some of them, nor while one is unresolved.
C20_JoinBeforeConsolidation ==
    /\ (launched # <<>> /\ calls.consolidator > 0) =>
           /\ \A i \in 1..Len(launched) : launched[i] \in DOMAIN results
           /\ unresolved = {}
           /\ Len(consolidator_args.other_reports_summary) >= 1
    /\ (pc = "reviewing" /\ \E i \in 1..Len(launched) : launched[i] \notin DOMAIN results) =>
           /\ calls.consolidator = 0
           /\ consolidator_args = NoArgs

C20_Witness ==
    /\ pc = "consolidating"
    /\ launched = <<"security">>
    /\ "security" \in DOMAIN results
    /\ calls.consolidator = 1

\* C21: the report_text of every verdict validate_document_structure returns is
\* a function of its rule_evaluations, has_critical_errors and
\* critical_error_reason alone: two returned verdicts with the same three
\* fields have the same report_text, and a report_text in the evaluator's
\* answer is overwritten.
C21_ReportTextIsFunctionOfFields ==
    /\ \A i, k \in 1..Len(validations) :
          ( /\ validations[i].verdict.rule_evaluations = validations[k].verdict.rule_evaluations
            /\ validations[i].verdict.has_critical_errors = validations[k].verdict.has_critical_errors
            /\ validations[i].verdict.critical_error_reason = validations[k].verdict.critical_error_reason )
          => validations[i].verdict.report_text = validations[k].verdict.report_text
    /\ \A i \in 1..Len(validations) :
          validations[i].verdict.report_text # JStr(<<"hand-written report">>)

\* C22: in process_document the summarizer is given the text the extraction
\* returned, and only after the extraction has returned; when neither the
\* extraction nor the summarization fails, the call returns the summary (it
\* ends with an exception only when one of the two services raised).
C22_SummaryOfExtractedText ==
    /\ summarizer_messages # NoText =>
          /\ document_text # NoText
          /\ summarizer_messages = document_text
    /\ pc = "process_returned" => comprehensive_summary \in Summaries
    /\ pc = "failed" => failure \in {"extraction", "summarization"}

\* C23: the summary is produced once and never changed afterwards: the
\* validator and the security reviewer are given the same summary, the one
\* process_document returned, and no later step of the run assigns it again.
C23_SummaryNeverChanges ==
    /\ [](/\ calls.validator > 0 =>
                /\ comprehensive_summary \in Summaries
                /\ validator_input = comprehensive_summary
          /\ calls.security > 0 =>
                /\ security_input = validator_input
                /\ security_input = comprehensive_summary)
    /\ [][comprehensive_summary # NoText => comprehensive_summary' = comprehensive_summary]_vars

C23_Witness ==
    /\ pc = "done"
    /\ calls.security = 1
    /\ calls.consolidator = 1
    /\ validator_input = <<"summary B">>
    /\ security_input = <<"summary B">>
    /\ comprehensive_summary = <<"summary B">>

\* C24: whenever main has called the consolidator, in the halt branch or in
\* the review branch, other_reports_summary is not empty, so the text sent on
\* has the "Detailed Reviews Summary:" section and never the line saying that
\* detailed reviews were not performed.
C24_OtherReportsNeverEmpty ==
    calls.consolidator > 0 =>
        /\ consolidator_args.other_reports_summary # <<>>
        /\ Contains(report_details, "Detailed Reviews Summary:\n")
        /\ ~Contains(report_details,
                     "Detailed reviews were not performed or results were not available.\n")
        /\ \/ InHistory("HandoffCritical")
           \/ consolidator_args.other_reports_summary[1] = "Security Review Report:\n"

C24_Witness ==
    /\ pc = "done"
    /\ InHistory("ReviewingSecurity")
    /\ results["security"] = <<>>
    /\ consolidator_args.other_reports_summary = <<"Security Review Report:\n">>

\* The rule file could not be loaded in this run: it is missing or unreadable.
RuleLoadFailed == calls.validator > 0 /\ ~(rule_file.exists /\ rule_file.readable)

IsLoadErrorText(text) ==
    /\ Len(text) > 0
    /\ text[1] \in {"Error: Rule file '", "Error loading rules from "}

\* C25: rule loading never raises: for a missing or unreadable rule file
\* load_rules returns an error message as an ordinary value, the validator
\* still calls the evaluator, with that message as the rules text, and the
\* failed load by itself neither sets has_critical_errors (the flag is the
\* one the evaluator's verdict carries) nor ends the run.
C25_RuleLoadFailureIsOrdinaryValue ==
    RuleLoadFailed =>
        /\ IsLoadErrorText(structural_rules)
        /\ pc # "validate"
        /\ calls.evaluator > 0 =>
              evaluator_messages
                = <<"Input Summary:\n">> \o validator_input \o <<"\n\nRules:\n">>
                  \o structural_rules
        /\ pc = "failed" => failure \in {"evaluator", "security", "consolidator"}
        /\ (VerdictRead /\ HasVerdictShape(report_str) /\ ~RenderRaises(report_str)) =>
              has_critical_errors = report_str.doc.has_critical_errors

C25_Witness ==
    /\ pc = "done"
    /\ ~rule_file.exists
    /\ IsLoadErrorText(structural_rules)
    /\ has_critical_errors = JFalse
    /\ InHistory("ReviewingSecurity")
    /\ calls.evaluator = 1

\* C26: the plan is created before the document is processed and its creation
\* must succeed for any stage to run, but the plan never decides the branch:
\* the branch taken after validation is determined by the verdict's
\* has_critical_errors alone (halt when it is truthy, review otherwise), so
\* runs with the same verdict take the same branch whatever the plan.
C26_PlanDoesNotDecideBranch ==
    /\ calls.processor > 0 =>
          /\ calls.planner = 1
          /\ plan \in Plans
    /\ failure = "planner" =>
          /\ pc = "failed"
          /\ history = <<>>
          /\ calls.processor = 0
          /\ calls.validator = 0
          /\ calls.consolidator = 0
    /\ (InHistory("HandoffCritical") \/ InHistory("ReviewingSecurity")) =>
          /\ InHistory("HandoffCritical")
               <=> Truthy(Get(structure_validation_data.has_critical_errors, JFalse))
          /\ InHistory("ReviewingSecurity")
               <=> ~Truthy(Get(structure_validation_data.has_critical_errors, JFalse))

C26_Witness ==
    /\ pc = "done"
    /\ plan = <<"plan B">>
    /\ structure_validation_data.has_critical_errors = JTrue
    /\ InHistory("HandoffCritical")
    /\ ~InHistory("ReviewingSecurity")

====
